---- MODULE Spec2Model ----
(***************************************************************************)
(* pgtype.UUID (src/pgtype/uuid.go): a nullable 16-byte container with its *)
(* canonical text form, wire codecs, generic Set/Get/AssignTo and the      *)
(* driver and JSON interop.                                                *)
(*                                                                         *)
(* Go strings and []byte are both sequences of octets, so every text and   *)
(* every buffer is a sequence over 0..255 (ASCII codes for text); the      *)
(* conversions string(b) and []byte(s) keep the octets.                    *)
(***************************************************************************)
EXTENDS Integers, Sequences, FiniteSets, TLC

VARIABLES Bytes, Valid, UUIDDecoderWrapper, Getter, last

vars == <<Bytes, Valid, UUIDDecoderWrapper, Getter, last>>

(* ------------------------------ bounds -------------------------------- *)

\* sample 16-byte arrays Arr(0) .. Arr(MaxSeed) used by the container operations
MaxSeed == 2
\* sample 16-byte arrays Arr(0) .. Arr(MaxPureSeed) used by the pure functions
MaxPureSeed == 47
\* depth at which the Go runtime gives up on a recursion that never returns
MaxDepth == 4

(* ------------------------- program constants -------------------------- *)

UUIDLen == 16
TextLen == 36
NoDashLen == 32
JSONLen == 38

(* ------------------------------ octets -------------------------------- *)

Dash == <<45>>
Quote == <<34>>
NullText == <<110, 117, 108, 108>>

\* "0123456789abcdef", the digits of fmt's %x
ldigits == <<48, 49, 50, 51, 52, 53, 54, 55, 56, 57, 97, 98, 99, 100, 101, 102>>

RECURSIVE fmtxUnpadded(_)
fmtxUnpadded(s) ==
    IF s = <<>> THEN <<>>
    ELSE (IF s[1] < 16 THEN <<ldigits[s[1] + 1]>>
          ELSE <<ldigits[(s[1] \div 16) + 1], ldigits[(s[1] % 16) + 1]>>)
         \o fmtxUnpadded(Tail(s))

\* fmt's %x verb on a byte slice: two lowercase hex digits per byte
RECURSIVE fmtx(_)
fmtx(s) ==
    IF s = <<>> THEN <<>>
    ELSE <<ldigits[(s[1] \div 16) + 1], ldigits[(s[1] % 16) + 1]>> \o fmtx(Tail(s))

\* encoding/hex reverseHexTable: 0..15 for a hex digit of either case, 255 otherwise
reverseHexTable(p) ==
    IF p >= 48 /\ p <= 57 THEN p - 48
    ELSE IF p >= 97 /\ p <= 102 THEN p - 87
    ELSE IF p >= 65 /\ p <= 70 THEN p - 55
    ELSE 255

(* ------------------------------ errors -------------------------------- *)

\* an error value: the format that built it and the argument it cites
Err(kind, cites, num, text) == [kind |-> kind, cites |-> cites, num |-> num, text |-> text]
NoErr == Err("nil", "none", 0, <<>>)

ZeroBytes == [i \in 1..UUIDLen |-> 0]

\* hex.DecodeString: pairs of digits to bytes, stopping at the first bad digit
RECURSIVE hexDecode(_, _)
hexDecode(s, acc) ==
    IF Len(s) = 0 THEN [buf |-> acc, err |-> NoErr]
    ELSE IF Len(s) = 1 THEN [buf |-> acc, err |-> Err("hex", "oddlength", 0, <<>>)]
    ELSE LET a == reverseHexTable(s[1])
             b == reverseHexTable(s[2])
         IN IF a > 15 THEN [buf |-> acc, err |-> Err("hex", "byte", s[1], <<>>)]
            ELSE IF b > 15 THEN [buf |-> acc, err |-> Err("hex", "byte", s[2], <<>>)]
            ELSE hexDecode(SubSeq(s, 3, Len(s)), Append(acc, a * 16 + b))

hexDecodeString(s) == hexDecode(s, <<>>)

(* ------------------------- canonical text form ------------------------ *)

encodeUUIDUnpadded(src) ==
    fmtxUnpadded(SubSeq(src, 1, 4)) \o Dash \o fmtxUnpadded(SubSeq(src, 5, 6)) \o Dash
      \o fmtxUnpadded(SubSeq(src, 7, 8)) \o Dash \o fmtxUnpadded(SubSeq(src, 9, 10)) \o Dash
      \o fmtxUnpadded(SubSeq(src, 11, 16))

encodeUUID(src) ==
    fmtx(SubSeq(src, 1, 4)) \o Dash \o fmtx(SubSeq(src, 5, 6)) \o Dash
      \o fmtx(SubSeq(src, 7, 8)) \o Dash \o fmtx(SubSeq(src, 9, 10)) \o Dash
      \o fmtx(SubSeq(src, 11, 16))

\* copy(dst[:], buf) into a zeroed [16]byte
copy16(dst, buf) ==
    [i \in 1..UUIDLen |-> IF i <= Len(buf) THEN buf[i] ELSE dst[i]]

parseDecode(hex) ==
    LET r == hexDecodeString(hex)
    IN IF r.err # NoErr THEN [dst |-> ZeroBytes, err |-> r.err]
       ELSE [dst |-> copy16(ZeroBytes, r.buf), err |-> NoErr]

lengthCitingParseUUID(src) ==
    IF Len(src) = TextLen
    THEN parseDecode(SubSeq(src, 1, 8) \o SubSeq(src, 10, 13) \o SubSeq(src, 15, 18)
                       \o SubSeq(src, 20, 23) \o SubSeq(src, 25, Len(src)))
    ELSE IF Len(src) = NoDashLen THEN parseDecode(src)
    ELSE [dst |-> ZeroBytes, err |-> Err("cannot parse UUID", "length", Len(src), <<>>)]

parseUUID(src) ==
    IF Len(src) = TextLen
    THEN parseDecode(SubSeq(src, 1, 8) \o SubSeq(src, 10, 13) \o SubSeq(src, 15, 18)
                       \o SubSeq(src, 20, 23) \o SubSeq(src, 25, Len(src)))
    ELSE IF Len(src) = NoDashLen THEN parseDecode(src)
    ELSE [dst |-> ZeroBytes, err |-> Err("cannot parse UUID", "text", 0, src)]

(* ------------------------------ values -------------------------------- *)

\* the container's value fields
UUID(bytes, valid) == [Bytes |-> bytes, Valid |-> valid]

\* a value passed as interface{}: its dynamic shape, nil-ness, octets and, for a
\* value of a defined type, its entry in Objects
Src(kind, isnil, data, id) == [kind |-> kind, isnil |-> isnil, data |-> data, id |-> id]
NilSrc == Src("nil", TRUE, <<>>, 0)
ArraySrc(a) == Src("array", FALSE, a, 0)
SliceSrc(b) == Src("slice", FALSE, b, 0)
NilSliceSrc == Src("slice", TRUE, <<>>, 0)
StringSrc(s) == Src("string", FALSE, s, 0)
PStringSrc(s) == Src("pstring", FALSE, s, 0)
NilPStringSrc == Src("pstring", TRUE, <<>>, 0)
ObjSrc(id) == Src("object", FALSE, <<>>, id)

Arr(k) == [i \in 1..UUIDLen |-> (k * (i * 37 + 11)) % 256]
Arrays == {Arr(k) : k \in 0..MaxSeed}
PureArrays == {Arr(k) : k \in 0..MaxPureSeed}

\* values of defined types handed to Set: whether the type has a Get() method,
\* its dynamic type and whether Go can compare two values of it, what Get()
\* returns, and what the underlying-representation resolver makes of it
Object(hasGet, typ, comparable, get, underOk, under) ==
    [hasGet |-> hasGet, typ |-> typ, comparable |-> comparable, get |-> get,
     underOk |-> underOk, under |-> under]

Objects == <<
    \* 1: pointer wrapper whose Get() returns the wrapper itself
    Object(TRUE, "*SelfWrapper", TRUE, ObjSrc(1), FALSE, NilSrc),
    \* 2: struct wrapper with a func field (as UUID itself) whose Get() returns itself
    Object(TRUE, "FuncStruct", FALSE, ObjSrc(2), FALSE, NilSrc),
    \* 3: wrapper whose Get() returns a [16]byte
    Object(TRUE, "*ArrayWrapper", TRUE, ArraySrc(Arr(1)), FALSE, NilSrc),
    \* 4: wrapper whose Get() returns nil
    Object(TRUE, "*NullWrapper", TRUE, NilSrc, FALSE, NilSrc),
    \* 5: wrapper whose Get() returns wrapper 3
    Object(TRUE, "*OuterWrapper", TRUE, ObjSrc(3), FALSE, NilSrc),
    \* 6, 7: two wrappers whose Get() return each other
    Object(TRUE, "*Ping", TRUE, ObjSrc(7), FALSE, NilSrc),
    Object(TRUE, "*Pong", TRUE, ObjSrc(6), FALSE, NilSrc),
    \* 8: a shape with no conversion (an int)
    Object(FALSE, "int", TRUE, NilSrc, FALSE, NilSrc),
    \* 9: a defined type over [16]byte, no Get()
    Object(FALSE, "MyUUID", TRUE, NilSrc, TRUE, ArraySrc(Arr(1))),
    \* 10: a defined type over [16]byte whose Get() returns itself
    Object(TRUE, "SelfUUID", TRUE, ObjSrc(10), TRUE, ArraySrc(Arr(1))),
    \* 11: wrapper whose Get() returns a text that does not parse
    Object(TRUE, "*TextWrapper", TRUE, StringSrc(<<97, 98>>), FALSE, NilSrc)
>>
ObjectIds == DOMAIN Objects

\* underlyingUUIDType (convert.go, outside src/)
underlyingUUIDType(src) ==
    IF src.kind = "object" /\ Objects[src.id].underOk
    THEN [ok |-> TRUE, v |-> Objects[src.id].under]
    ELSE [ok |-> FALSE, v |-> NilSrc]

(* ----------------------------- the setters ---------------------------- *)

\* what a call hands back: the container after it, the error, how the call ended
\* ("return", "panic", "overflow") and what Set did on the way
Ret(c, err) == [c |-> c, err |-> err, outcome |-> "return",
                gets |-> 0, unwraps |-> 0, resolves |-> 0]
Crash(c, how) == [c |-> c, err |-> NoErr, outcome |-> how,
                  gets |-> 0, unwraps |-> 0, resolves |-> 0]
Tally(r, g, u, v) == [r EXCEPT !.gets = @ + g, !.unwraps = @ + u, !.resolves = @ + v]

setNilKeepBytes(c) == UUID(c.Bytes, FALSE)

setNil(c) == UUID(ZeroBytes, FALSE)

setByteArrayKeepValid(c, value) == UUID(value, c.Valid)

setByteArray(c, value) == UUID(value, TRUE)

setByteSliceCopyFirst(c, value) ==
    IF ~value.isnil
    THEN IF Len(value.data) # UUIDLen
         THEN Ret(UUID(copy16(c.Bytes, value.data), c.Valid),
                  Err("[]byte must be 16 bytes to convert to UUID", "length",
                      Len(value.data), <<>>))
         ELSE Ret(UUID(copy16(c.Bytes, value.data), TRUE), NoErr)
    ELSE Ret(setNil(c), NoErr)

setByteSlice(c, value) ==
    IF ~value.isnil
    THEN IF Len(value.data) # UUIDLen
         THEN Ret(c, Err("[]byte must be 16 bytes to convert to UUID", "length",
                         Len(value.data), <<>>))
         ELSE Ret(UUID(copy16(c.Bytes, value.data), TRUE), NoErr)
    ELSE Ret(setNil(c), NoErr)

setString(c, value) ==
    LET p == parseUUID(value)
    IN IF p.err # NoErr THEN Ret(c, p.err)
       ELSE Ret(setByteArray(c, p.dst), NoErr)

\* value2 != value panics when both hold the same dynamic type and Go cannot
\* compare values of it
comparePanics(value2, value) ==
    /\ value2.kind = "object"
    /\ Objects[value2.id].typ = Objects[value.id].typ
    /\ ~Objects[value.id].comparable

\* Set: every recursive call is a tail call, so the call is the chain of its
\* frames; a chain that never ends overflows the goroutine stack
RECURSIVE Set(_, _, _)
Set(c, src, depth) ==
    IF depth > MaxDepth THEN Crash(c, "overflow")
    ELSE IF src.kind = "nil" THEN Ret(setNil(c), NoErr)
    ELSE LET hasGet == src.kind = "object" /\ Objects[src.id].hasGet
             value2 == Objects[src.id].get
             g == IF hasGet THEN 1 ELSE 0
         IN IF hasGet /\ comparePanics(value2, src) THEN Tally(Crash(c, "panic"), 1, 0, 0)
            ELSE IF hasGet /\ value2 # src
            THEN Tally(Set(c, value2, depth + 1), 1, 1, 0)
            ELSE CASE src.kind = "array" -> Ret(setByteArray(c, src.data), NoErr)
                   [] src.kind = "slice" -> setByteSlice(c, src)
                   [] src.kind = "string" -> setString(c, src.data)
                   [] src.kind = "pstring" ->
                        IF src.isnil THEN Ret(setNil(c), NoErr)
                        ELSE setString(c, src.data)
                   [] OTHER ->
                        LET u == underlyingUUIDType(src)
                        IN IF u.ok THEN Tally(Set(c, u.v, depth + 1), g, 0, 1)
                           ELSE Tally(Ret(c, Err("cannot convert to UUID", "value",
                                                 src.id, <<>>)), g, 0, 0)

(* ------------------------------- Get ---------------------------------- *)

\* what Get() returns: the getter override's value, the nil sentinel, or Bytes
Value(kind, data) == [kind |-> kind, data |-> data]

GetIgnoringValid(c, getter) ==
    IF getter THEN Value("override", <<>>) ELSE Value("array", c.Bytes)

Get(c, getter) ==
    IF getter THEN Value("override", <<>>)
    ELSE IF ~c.Valid THEN Value("nil", <<>>)
    ELSE Value("array", c.Bytes)

(* ----------------------------- wire codec ----------------------------- *)

\* a []byte: nil or not, and its octets
Slice(isnil, data) == [isnil |-> isnil, data |-> data]
NilSlice == Slice(TRUE, <<>>)

LengthErr(n) == Err("invalid length for UUID", "length", n, <<>>)

DecodeTextAnyLength(c, src) ==
    IF src.isnil THEN Ret(setNil(c), NoErr)
    ELSE LET p == parseUUID(src.data)
         IN IF p.err # NoErr THEN Ret(c, p.err)
            ELSE Ret(setByteArray(c, p.dst), NoErr)

DecodeText(c, src) ==
    IF src.isnil THEN Ret(setNil(c), NoErr)
    ELSE IF Len(src.data) # TextLen THEN Ret(c, LengthErr(Len(src.data)))
    ELSE LET p == parseUUID(src.data)
         IN IF p.err # NoErr THEN Ret(c, p.err)
            ELSE Ret(setByteArray(c, p.dst), NoErr)

DecodeBinary(c, src) ==
    IF src.isnil THEN Ret(setNil(c), NoErr)
    ELSE IF Len(src.data) # UUIDLen THEN Ret(c, LengthErr(Len(src.data)))
    ELSE setByteSlice(c, src)

\* an encoder's result: the buffer handed back and the error slot
Enc(buf, err) == [buf |-> buf, err |-> err]

EncodeTextOverwrite(c, buf) ==
    IF ~c.Valid THEN Enc(NilSlice, NoErr)
    ELSE Enc(Slice(FALSE, encodeUUID(c.Bytes)), NoErr)

EncodeText(c, buf) ==
    IF ~c.Valid THEN Enc(NilSlice, NoErr)
    ELSE Enc(Slice(FALSE, buf.data \o encodeUUID(c.Bytes)), NoErr)

EncodeBinary(c, buf) ==
    IF ~c.Valid THEN Enc(NilSlice, NoErr)
    ELSE Enc(Slice(FALSE, buf.data \o c.Bytes), NoErr)

(* ------------------------- driver and JSON ---------------------------- *)

\* Scan: a string or a copy of a byte slice goes to DecodeText; both []byte(src)
\* and make([]byte, len(src)) are non-nil
Scan(c, src) ==
    IF src.kind = "nil" THEN Ret(setNil(c), NoErr)
    ELSE IF src.kind = "string" THEN DecodeText(c, Slice(FALSE, src.data))
    ELSE IF src.kind = "slice" THEN DecodeText(c, Slice(FALSE, src.data))
    ELSE Ret(c, Err("cannot scan", "type", src.id, <<>>))

MarshalJSON(c) ==
    IF ~c.Valid THEN Enc(Slice(FALSE, NullText), NoErr)
    ELSE Enc(Slice(FALSE, Quote \o encodeUUID(c.Bytes) \o Quote), NoErr)

UnmarshalJSON(c, src) ==
    IF src.data = NullText THEN Set(c, NilSrc, 0)
    ELSE IF Len(src.data) # JSONLen THEN Ret(c, LengthErr(Len(src.data)))
    ELSE Set(c, StringSrc(SubSeq(src.data, 2, Len(src.data) - 1)), 0)

(* ------------------------------ AssignTo ------------------------------ *)

\* a destination handed to AssignTo: its pointer shape, whether it is itself a
\* UUIDDecoder, whether the installed wrapper yields a decoder for it, and the
\* next destination the framework offers for it (0: none)
Dest(shape, hasDecoder, wrappable, next) ==
    [shape |-> shape, hasDecoder |-> hasDecoder, wrappable |-> wrappable, next |-> next]

Dests == <<
    Dest("*[16]byte", FALSE, FALSE, 0),     \* 1
    Dest("*[]byte", FALSE, FALSE, 0),       \* 2
    Dest("*string", FALSE, FALSE, 0),       \* 3
    Dest("*int", FALSE, FALSE, 0),          \* 4: nothing to retry with
    Dest("**string", FALSE, FALSE, 3),      \* 5: retried as *string
    Dest("*Decoder", TRUE, FALSE, 0),       \* 6: implements DecodeUUID
    Dest("*Wrapped", FALSE, TRUE, 0),       \* 7: a decoder only through the wrapper
    Dest("**Decoder", FALSE, FALSE, 6)      \* 8: retried as *Decoder
>>
DestIds == DOMAIN Dests

\* what a destination holds after the call, and whose memory a slice uses
Held(kind, data, backing) == [kind |-> kind, data |-> data, backing |-> backing]
Untouched == Held("untouched", <<>>, "caller")

Assigned(c, err, target, held) ==
    [c |-> c, err |-> err, outcome |-> "return", target |-> target, held |-> held]

\* d.DecodeUUID(src): the capability object pulls the value and may fail
DecodeUUID(c, d, decErr) ==
    Assigned(c, IF decErr THEN Err("DecodeUUID", "none", 0, <<>>) ELSE NoErr, d,
             Held("decoded", IF c.Valid THEN c.Bytes ELSE <<>>, "decoder"))

\* NullAssignTo (convert.go, outside src/): assigns null where it can, else fails
NullAssignTo(c, d, nullErr) ==
    IF nullErr THEN Assigned(c, Err("cannot assign NULL", "none", 0, <<>>), d, Untouched)
    ELSE Assigned(c, NoErr, d, Held("null", <<>>, "caller"))

\* GetAssignToDstType (convert.go, outside src/)
GetAssignToDstType(d) ==
    [nextDst |-> Dests[d].next, retry |-> Dests[d].next # 0]

RECURSIVE AssignToSharingBytes(_, _, _, _, _)
AssignToSharingBytes(c, wrapper, d, decErr, nullErr) ==
    IF Dests[d].hasDecoder THEN DecodeUUID(c, d, decErr)
    ELSE IF wrapper /\ Dests[d].wrappable THEN DecodeUUID(c, d, decErr)
    ELSE IF ~c.Valid THEN NullAssignTo(c, d, nullErr)
    ELSE CASE Dests[d].shape = "*[16]byte" ->
                Assigned(c, NoErr, d, Held("array", c.Bytes, "caller"))
           [] Dests[d].shape = "*[]byte" ->
                Assigned(c, NoErr, d, Held("slice", c.Bytes, "src.Bytes"))
           [] Dests[d].shape = "*string" ->
                Assigned(c, NoErr, d, Held("string", encodeUUID(c.Bytes), "new"))
           [] OTHER ->
                LET n == GetAssignToDstType(d)
                IN IF n.retry
                   THEN AssignToSharingBytes(c, wrapper, n.nextDst, decErr, nullErr)
                   ELSE Assigned(c, NoErr, d, Untouched)

RECURSIVE AssignTo(_, _, _, _, _)
AssignTo(c, wrapper, d, decErr, nullErr) ==
    IF Dests[d].hasDecoder THEN DecodeUUID(c, d, decErr)
    ELSE IF wrapper /\ Dests[d].wrappable THEN DecodeUUID(c, d, decErr)
    ELSE IF ~c.Valid THEN NullAssignTo(c, d, nullErr)
    ELSE CASE Dests[d].shape = "*[16]byte" ->
                Assigned(c, NoErr, d, Held("array", c.Bytes, "caller"))
           [] Dests[d].shape = "*[]byte" ->
                Assigned(c, NoErr, d, Held("slice", copy16(ZeroBytes, c.Bytes), "new"))
           [] Dests[d].shape = "*string" ->
                Assigned(c, NoErr, d, Held("string", encodeUUID(c.Bytes), "new"))
           [] OTHER ->
                LET n == GetAssignToDstType(d)
                IN IF n.retry THEN AssignTo(c, wrapper, n.nextDst, decErr, nullErr)
                   ELSE Assigned(c, NoErr, d, Untouched)

(* --------------------------- sample inputs ---------------------------- *)

Canon(k) == encodeUUID(Arr(k))
Put(s, i, ch) == [s EXCEPT ![i] = ch]
Upper(s) == [i \in DOMAIN s |-> IF s[i] >= 97 /\ s[i] <= 102 THEN s[i] - 32 ELSE s[i]]
Strip(s) == SelectSeq(s, LAMBDA ch : ch # 45)

\* texts of every interesting length and shape
OddTexts == {
    <<>>, <<97, 98>>, NullText,
    SubSeq(Canon(1), 1, 35), Canon(1) \o <<48>>,      \* 35 and 37 octets
    Strip(Canon(1)), Upper(Canon(1)),                  \* 32 digits; upper case
    Put(Canon(1), 1, 103),                             \* 'g' among the digits
    Put(Canon(1), 9, 48),                              \* a digit where a dash belongs
    Put(Put(Canon(1), 9, 49), 8, 45),                  \* the first dash one place early
    Put(Strip(Canon(1)), 32, 45),                      \* 32 octets, not all digits
    SubSeq(Strip(Canon(1)), 1, 31) }

Texts == {Canon(k) : k \in 0..MaxSeed} \cup OddTexts
PureTexts == {Canon(k) : k \in 0..MaxPureSeed} \cup OddTexts

\* payloads for the binary decoder and byte slices for Set
Binaries == {Slice(FALSE, Arr(k)) : k \in 0..MaxSeed}
              \cup {NilSlice, Slice(FALSE, <<>>), Slice(FALSE, <<1, 2>>),
                    Slice(FALSE, SubSeq(Arr(1), 1, 15)), Slice(FALSE, Arr(1) \o <<7>>)}

TextPayloads == {Slice(FALSE, t) : t \in Texts} \cup {NilSlice}

JSONs == {Slice(FALSE, Quote \o Canon(k) \o Quote) : k \in 0..MaxSeed}
           \cup {NilSlice, Slice(FALSE, <<>>), Slice(FALSE, NullText),
                 Slice(FALSE, Quote \o NullText \o Quote),
                 Slice(FALSE, Quote \o SubSeq(Canon(1), 1, 35) \o Quote),
                 Slice(FALSE, Quote \o Canon(1) \o <<48>> \o Quote),
                 Slice(FALSE, Quote \o Strip(Canon(1)) \o Quote),
                 Slice(FALSE, <<120>> \o Canon(1) \o <<120>>),
                 Slice(FALSE, Quote \o Put(Canon(1), 1, 103) \o Quote)}

SetSources == {NilSrc, NilSliceSrc, NilPStringSrc}
                \cup {ArraySrc(a) : a \in Arrays}
                \cup {Src("slice", b.isnil, b.data, 0) : b \in Binaries}
                \cup {StringSrc(t) : t \in Texts}
                \cup {PStringSrc(Canon(1)), PStringSrc(<<97, 98>>)}
                \cup {ObjSrc(id) : id \in ObjectIds}

ScanSources == {NilSrc, NilSliceSrc, ObjSrc(8)}
                 \cup {StringSrc(t) : t \in Texts}
                 \cup {SliceSrc(t) : t \in Texts}

\* caller buffers handed to the encoders
Buffers == {NilSlice, Slice(FALSE, <<>>), Slice(FALSE, <<1, 2, 3>>),
            Slice(FALSE, Canon(1))}

(* ----------------------- the record of the last call ------------------ *)

NoCalls == [gets |-> 0, unwraps |-> 0, resolves |-> 0]
NoSrc == Src("none", TRUE, <<>>, 0)
NoOut == Held("none", <<>>, "none")

Call(op, pre, src, err, outcome, out, calls, target) ==
    [op |-> op, pre |-> pre, src |-> src, err |-> err, outcome |-> outcome,
     out |-> out, calls |-> calls, target |-> target]

Self == UUID(Bytes, Valid)

\* a call on the container that returned r
Store(op, src, r) ==
    /\ Bytes' = r.c.Bytes
    /\ Valid' = r.c.Valid
    /\ last' = Call(op, Self, src, r.err, r.outcome, NoOut,
                    [gets |-> r.gets, unwraps |-> r.unwraps, resolves |-> r.resolves], 0)
    /\ UNCHANGED <<UUIDDecoderWrapper, Getter>>

\* a call with a value receiver that handed back out
Read(op, src, err, out) ==
    /\ last' = Call(op, Self, src, err, "return", out, NoCalls, 0)
    /\ UNCHANGED <<Bytes, Valid, UUIDDecoderWrapper, Getter>>

AsBuf(b) == Held(IF b.isnil THEN "nil" ELSE "buffer", b.data, "caller")

(* ------------------------------ actions ------------------------------- *)

Init ==
    /\ Bytes = ZeroBytes
    /\ Valid = FALSE
    /\ UUIDDecoderWrapper \in BOOLEAN
    /\ Getter \in BOOLEAN
    /\ last = Call("new", UUID(ZeroBytes, FALSE), NoSrc, NoErr, "return", NoOut, NoCalls, 0)

SetCall == \E src \in SetSources : Store("Set", src, Set(Self, src, 0))

GetCall ==
    LET v == Get(Self, Getter)
    IN Read("Get", NoSrc, NoErr, Held(v.kind, v.data, "copy"))

AssignToCall ==
    \E d \in DestIds, decErr \in BOOLEAN, nullErr \in BOOLEAN :
        LET r == AssignTo(Self, UUIDDecoderWrapper, d, decErr, nullErr)
        IN /\ Bytes' = r.c.Bytes
           /\ Valid' = r.c.Valid
           /\ last' = Call("AssignTo", Self, Src("dest", FALSE, <<>>, d), r.err,
                           r.outcome, r.held, NoCalls, r.target)
           /\ UNCHANGED <<UUIDDecoderWrapper, Getter>>

DecodeTextCall ==
    \E src \in TextPayloads :
        Store("DecodeText", Src("slice", src.isnil, src.data, 0), DecodeText(Self, src))

DecodeBinaryCall ==
    \E src \in Binaries :
        Store("DecodeBinary", Src("slice", src.isnil, src.data, 0), DecodeBinary(Self, src))

EncodeTextCall ==
    \E buf \in Buffers :
        LET e == EncodeText(Self, buf)
        IN Read("EncodeText", Src("slice", buf.isnil, buf.data, 0), e.err, AsBuf(e.buf))

EncodeBinaryCall ==
    \E buf \in Buffers :
        LET e == EncodeBinary(Self, buf)
        IN Read("EncodeBinary", Src("slice", buf.isnil, buf.data, 0), e.err, AsBuf(e.buf))

ScanCall == \E src \in ScanSources : Store("Scan", src, Scan(Self, src))

MarshalJSONCall ==
    LET e == MarshalJSON(Self)
    IN Read("MarshalJSON", NoSrc, e.err, AsBuf(e.buf))

UnmarshalJSONCall ==
    \E src \in JSONs :
        Store("UnmarshalJSON", Src("slice", src.isnil, src.data, 0), UnmarshalJSON(Self, src))

\* the two pure functions, applied to a sample
parseUUIDCall(texts) ==
    \E t \in texts :
        LET p == parseUUID(t)
        IN Read("parseUUID", StringSrc(t), p.err, Held("array", p.dst, "copy"))

encodeUUIDCall(arrays) ==
    \E a \in arrays :
        Read("encodeUUID", ArraySrc(a), NoErr, Held("string", encodeUUID(a), "new"))

\* parseUUID applied to the text encodeUUID has just produced
parseEncoded ==
    /\ last.op = "encodeUUID"
    /\ LET p == parseUUID(last.out.data)
       IN Read("parseUUID", StringSrc(last.out.data), p.err, Held("array", p.dst, "copy"))

Next ==
    \/ SetCall
    \/ GetCall
    \/ AssignToCall
    \/ DecodeTextCall
    \/ DecodeBinaryCall
    \/ EncodeTextCall
    \/ EncodeBinaryCall
    \/ ScanCall
    \/ MarshalJSONCall
    \/ UnmarshalJSONCall
    \/ parseUUIDCall(Texts)
    \/ encodeUUIDCall(Arrays)

Spec == Init /\ [][Next]_vars

\* the canonical text form on its own
NextPure ==
    \/ encodeUUIDCall(PureArrays)
    \/ parseUUIDCall(PureTexts)
    \/ parseEncoded

SpecPure == Init /\ [][NextPure]_vars

(* ------------------------------ claims -------------------------------- *)

EmptyBuf == Slice(FALSE, <<>>)
DashesInPlace(t) == Len(t) = TextLen /\ t[9] = 45 /\ t[14] = 45 /\ t[19] = 45 /\ t[24] = 45

\* C1: for every 16-byte array b, encodeUUID(b) is 36 octets long and
\* parseUUID(encodeUUID(b)) returns b with no error.
C1_ParseFormatRoundTrip ==
    /\ last.op = "encodeUUID" => Len(last.out.data) = TextLen
    /\ \A b \in PureArrays :
         (last.op = "parseUUID" /\ last.src.data = encodeUUID(b))
            => (last.err = NoErr /\ last.out.data = b)

C1_Witness ==
    /\ last.op = "parseUUID"
    /\ last.src.data = encodeUUID(Arr(1))
    /\ last.err = NoErr
    /\ last.out.data = Arr(1)
    /\ \E i \in 1..UUIDLen : Arr(1)[i] < 16 /\ Arr(1)[i] > 0

\* C2: whatever the receiving container held, DecodeText of what a valid
\* container's EncodeText appended to an empty buffer, and DecodeBinary of what its
\* EncodeBinary appended, succeed and leave Valid = TRUE and the same Bytes.
C2_WireRoundTrip ==
    \A a \in Arrays :
      /\ (last.op = "DecodeText"
            /\ Slice(last.src.isnil, last.src.data) = EncodeText(UUID(a, TRUE), EmptyBuf).buf)
           => (last.err = NoErr /\ last.outcome = "return" /\ Valid /\ Bytes = a)
      /\ (last.op = "DecodeBinary"
            /\ Slice(last.src.isnil, last.src.data) = EncodeBinary(UUID(a, TRUE), EmptyBuf).buf)
           => (last.err = NoErr /\ last.outcome = "return" /\ Valid /\ Bytes = a)

C2_Witness ==
    /\ last.op = "DecodeText"
    /\ last.src.data = EncodeText(UUID(Arr(1), TRUE), EmptyBuf).buf.data
    /\ last.pre = UUID(Arr(2), TRUE)
    /\ Valid /\ Bytes = Arr(1)

\* C3: in every state reached from the empty container, Valid = FALSE implies
\* that Bytes is all zero.
C3_InvalidIsZero == ~Valid => Bytes = ZeroBytes

C3_Witness ==
    /\ ~Valid
    /\ last.pre.Valid /\ last.pre.Bytes # ZeroBytes
    /\ last.op = "Scan"

\* C4: DecodeText of a present payload whose length is not 36 fails with the
\* length error; DecodeBinary of a present payload succeeds exactly when its
\* length is 16; UnmarshalJSON of input other than null whose length is not 38
\* fails with the length error.
C4_ExactLengths ==
    /\ (last.op = "DecodeText" /\ ~last.src.isnil /\ Len(last.src.data) # 36)
         => last.err = LengthErr(Len(last.src.data))
    /\ (last.op = "DecodeBinary" /\ ~last.src.isnil)
         => ((last.err = NoErr) <=> (Len(last.src.data) = 16))
    /\ (last.op = "DecodeBinary" /\ ~last.src.isnil /\ Len(last.src.data) # 16)
         => last.err.cites = "length"
    /\ (last.op = "UnmarshalJSON" /\ last.src.data # NullText /\ Len(last.src.data) # 38)
         => last.err = LengthErr(Len(last.src.data))

C4_Witness ==
    /\ last.op = "DecodeText"
    /\ Len(last.src.data) = 37
    /\ last.err = LengthErr(37)

\* C5: when Set, DecodeText, DecodeBinary, Scan or UnmarshalJSON returns an error,
\* Bytes and Valid are what they were before the call.
C5_ErrorLeavesValue ==
    (/\ last.op \in {"Set", "DecodeText", "DecodeBinary", "Scan", "UnmarshalJSON"}
     /\ last.outcome = "return"
     /\ last.err # NoErr)
       => (Bytes = last.pre.Bytes /\ Valid = last.pre.Valid)

C5_Witness ==
    /\ last.op = "Set"
    /\ last.src.kind = "slice" /\ Len(last.src.data) = 15
    /\ last.err # NoErr
    /\ last.pre.Valid /\ last.pre.Bytes = Arr(2)
    /\ Valid /\ Bytes = Arr(2)

\* C6: Set(nil) succeeds from any state and, with no getter override, Get() then
\* returns the nil sentinel; EncodeText and EncodeBinary of an invalid container
\* return the nil buffer and no error, and its MarshalJSON returns the octets null.
C6_NullHandling ==
    /\ (last.op = "Set" /\ last.src.kind = "nil")
         => (/\ last.err = NoErr /\ last.outcome = "return"
             /\ ~Getter => Get(Self, Getter) = Value("nil", <<>>))
    /\ (last.op = "Get" /\ ~Getter /\ ~last.pre.Valid) => last.out.kind = "nil"
    /\ (last.op \in {"EncodeText", "EncodeBinary"} /\ ~last.pre.Valid)
         => (last.out.kind = "nil" /\ last.err = NoErr)
    /\ (last.op = "MarshalJSON" /\ ~last.pre.Valid)
         => (last.out.kind = "buffer" /\ last.out.data = <<110, 117, 108, 108>>
             /\ last.err = NoErr)

C6_Witness ==
    /\ last.op = "Set" /\ last.src.kind = "nil"
    /\ last.pre.Valid /\ last.pre.Bytes # ZeroBytes
    /\ ~Getter
    /\ ~Valid

\* C7: EncodeText and EncodeBinary never return an error; for a valid container the
\* buffer handed back is the caller's octets followed by the 36 octets of the
\* canonical text, or by the 16 raw bytes; the container is as it was.
C7_EncodersAppend ==
    /\ last.op \in {"EncodeText", "EncodeBinary"} => (last.err = NoErr /\ Self = last.pre)
    /\ (last.op = "EncodeText" /\ last.pre.Valid)
         => (/\ last.out.kind = "buffer"
             /\ Len(last.out.data) = Len(last.src.data) + 36
             /\ SubSeq(last.out.data, 1, Len(last.src.data)) = last.src.data
             /\ SubSeq(last.out.data, Len(last.src.data) + 1, Len(last.out.data))
                  = encodeUUID(last.pre.Bytes))
    /\ (last.op = "EncodeBinary" /\ last.pre.Valid)
         => (/\ last.out.kind = "buffer"
             /\ last.out.data = last.src.data \o last.pre.Bytes)

C7_Witness ==
    /\ last.op = "EncodeText"
    /\ last.pre.Valid /\ last.pre.Bytes = Arr(1)
    /\ last.src.data = <<1, 2, 3>>
    /\ Len(last.out.data) = 39

\* whether AssignTo finds a decoder for destination d
Capable(d) == Dests[d].hasDecoder \/ (UUIDDecoderWrapper /\ Dests[d].wrappable)

\* whether it finds one for d or for a destination offered in d's place
RECURSIVE CapableChain(_)
CapableChain(d) ==
    Capable(d) \/ (Dests[d].next # 0 /\ CapableChain(Dests[d].next))

\* what AssignTo leaves in destination d, by d's shape
AssignedByShape(d) ==
    /\ Dests[d].shape = "*[16]byte"
         => last.out = Held("array", last.pre.Bytes, "caller")
    /\ Dests[d].shape = "*[]byte"
         => (/\ last.out.kind = "slice" /\ last.out.backing = "new"
             /\ Len(last.out.data) = 16 /\ last.out.data = last.pre.Bytes)
    /\ Dests[d].shape = "*string"
         => (/\ last.out.kind = "string" /\ DashesInPlace(last.out.data)
             /\ last.out.data = encodeUUID(last.pre.Bytes))
    /\ (Dests[d].shape \notin {"*[16]byte", "*[]byte", "*string"} /\ Dests[d].next = 0)
         => last.out = Untouched

\* C8 as stated: AssignTo of a valid container into a destination without a
\* decoder of its own or from the wrapper returns no error, leaves the container
\* alone and fills the destination by its shape.
C8_AsStated ==
    (last.op = "AssignTo" /\ last.pre.Valid /\ ~Capable(last.src.id))
       => (last.err = NoErr /\ Self = last.pre /\ AssignedByShape(last.src.id))

\* C8, amended: the same, for a destination such that neither it nor any
\* destination the framework offers in its place has a decoder; the destination
\* that is filled is the last one offered.
C8_NoDecoderOnTheWay ==
    (last.op = "AssignTo" /\ last.pre.Valid /\ ~CapableChain(last.src.id))
       => (last.err = NoErr /\ last.outcome = "return" /\ Self = last.pre
           /\ AssignedByShape(last.target))

C8_Witness ==
    /\ last.op = "AssignTo"
    /\ last.pre = UUID(Arr(1), TRUE)
    /\ last.src.id = 5 /\ last.target = 3
    /\ last.out.data = encodeUUID(Arr(1))
    /\ last.err = NoErr

\* the calls that hand a text straight to parseUUID
ParsedText ==
    \/ last.op = "parseUUID"
    \/ last.op = "Set" /\ last.src.kind = "string"
    \/ last.op = "Set" /\ last.src.kind = "pstring" /\ ~last.src.isnil

\* C9 as stated: a text whose length is neither 36 nor 32 fails with a parse
\* error that cites the length of the text.
C9_AsStated ==
    (ParsedText /\ Len(last.src.data) \notin {36, 32})
       => (/\ last.err.kind = "cannot parse UUID"
           /\ last.err.cites = "length"
           /\ last.err.num = Len(last.src.data))

\* C9, amended: such a text fails with a parse error that cites the text itself,
\* and the container is left as it was.
C9_CitesTheText ==
    (ParsedText /\ Len(last.src.data) \notin {36, 32})
       => (/\ last.err = Err("cannot parse UUID", "text", 0, last.src.data)
           /\ Self = last.pre)

C9_Witness ==
    /\ last.op = "Set" /\ last.src.kind = "string"
    /\ Len(last.src.data) = 35
    /\ last.err.kind = "cannot parse UUID" /\ last.err.text = last.src.data

\* C10: Set on a source with Get() recurses on what Get() returns only when that
\* is not the source itself; for a source whose Get() returns the source, Set
\* calls Get() once, makes no recursive call for it, goes on to the dispatch on the
\* shape and returns, with the cannot-convert error when nothing resolves the shape.
C10_SelfReturningWrapper ==
    (last.op = "Set" /\ last.src.kind = "object" /\ Objects[last.src.id].hasGet)
       => /\ Objects[last.src.id].get = last.src
              => (/\ last.outcome = "return"
                  /\ last.calls.gets = 1 /\ last.calls.unwraps = 0
                  /\ ~Objects[last.src.id].underOk
                       => (last.err.kind = "cannot convert to UUID" /\ Self = last.pre))
          /\ last.calls.unwraps > 0 => Objects[last.src.id].get # last.src

====
